---- MODULE Spec2Model ----
(***************************************************************************)
(* A state-machine model of msg-store-6-final.py: the in-memory tables of  *)
(* BotDatabase, their debounced copies on disk, the per-user session data  *)
(* (context.user_data) and the handlers that change them.                  *)
(*                                                                         *)
(* Strings that the code takes apart or compares ignoring case (batch      *)
(* names, button payloads, message keys) are sequences of one-character    *)
(* tokens; "sz" is the token of the letter U+00DF (sharp s).  Time is the  *)
(* wall clock in whole seconds; one handler runs at one clock reading.     *)
(***************************************************************************)
EXTENDS Integers, Sequences, FiniteSets, TLC

\* ---------------------------------------------------------------- bounds
\* the number of steps (handler runs and clock advances) of a run
MaxSteps == 4       \* of the content store
OwnerSteps == 5     \* of batch ownership
SubsSteps == 5      \* of the subscription registry and batch names
FanoutSteps == 5    \* of the notification of subscribers
DiskSteps == 4      \* of the store on a disk that can fail
ShareSteps == 4     \* of the sharing of batches
SaveSteps == 4      \* of the flushes around the save interval
DeletedSteps == 7   \* of the deletion of a batch whose items were flushed
RoutingSteps == 5   \* of the routing of content messages
ButtonSteps == 3    \* of the buttons of batches
TimerSteps == 5     \* of the retraction of delivered content

\* ------------------------------------------------------ program constants
SaveInterval == 5   \* _should_save: "> 5" seconds since the last flush
CleanupDelay == 300 \* _cleanup_messages: asyncio.sleep(300)

\* ------------------------------------------------------------ input sets
Users == {1, 2}
Names == { <<"a">>, <<"A">>, <<"sz">> }
Kinds == {"text", "photo", "video", "document", "audio", "voice", "sticker", "animation"}
Messages == { [kind |-> "text", body |-> "x"],
              [kind |-> "photo", body |-> "f"],
              [kind |-> "location", body |-> "l"] }
\* outcomes of a write to disk (FileManager.save_data): TRUE it succeeds
Writes == {TRUE}
Docs == {"message_store", "message_batch", "stats", "batches", "subscriptions", "user_profiles"}
None == "None"

\* ------------------------------------------------------- str.lower / upper
\* Python's str.lower(), one character at a time ("ß".lower() == "ß").
LowerChar(c) ==
  CASE c = "A" -> "a"
    [] c = "S" -> "s"
    [] OTHER -> c

Lower(s) == [i \in 1..Len(s) |-> LowerChar(s[i])]

\* Python's str.upper(): "ß".upper() == "SS", two characters.
UpperChar(c) ==
  CASE c = "a" -> <<"A">>
    [] c = "s" -> <<"S">>
    [] c = "sz" -> <<"S", "S">>
    [] OTHER -> <<c>>

RECURSIVE Upper(_)
Upper(s) == IF s = <<>> THEN <<>> ELSE UpperChar(Head(s)) \o Upper(Tail(s))

\* ------------------------------------------------------------- variables
VARIABLES
  now,            \* datetime.now(), in seconds
  last_save,      \* BotDatabase._last_save: document -> time of its last flush
  message_store,  \* db.message_store: key -> standalone item
  message_batch,  \* db.message_batch: key -> batch item
  stats,          \* db.stats
  batches,        \* db.batches: name -> batch record
  subscriptions,  \* db.subscriptions: batch name -> (user -> subscribed at)
  user_profiles,  \* db.user_profiles
  disk,           \* the six JSON documents as last written
  user_data,      \* context.user_data of every user
  reply,          \* the last response a handler sent (or that it sent none)
  fanout,         \* _add_to_batch notifying subscribers: its frame
  cleanups,       \* the _cleanup_messages tasks that are asleep
  deletions,      \* the delete_message calls the cleanup tasks have made
  budget          \* inbound events and clock steps left in the run

vars == <<now, last_save, message_store, message_batch, stats, batches,
          subscriptions, user_profiles, disk, user_data, reply, fanout,
          cleanups, deletions, budget>>

\* No _add_to_batch has notified anyone yet.
Idle ==
  [pc |-> "idle", user |-> 0, batch |-> <<>>, key |-> <<>>, kind |-> "",
   subscribers |-> <<>>, i |-> 0, log |-> <<>>]

\* (a handler that awaits the cleanup it arms keeps the dispatcher as well)
BusyWhileArmed == fanout.pc \in {"sending", "notice", "acking", "hung"} \/ cleanups # {}

\* The handler is suspended in _add_to_batch, between the append and the
\* acknowledgement. Updates are processed one at a time (main builds the
\* Application without concurrent_updates), so no other handler starts.
\* A cleanup task is started with asyncio.create_task and not awaited: it
\* keeps no handler.
Busy == fanout.pc \in {"sending", "notice", "acking", "hung"}

EmptyStats ==
  [views |-> <<>>, users |-> <<>>, batch_views |-> <<>>,
   message_types |-> [k \in Kinds |-> 0]]

\* The tables of BotDatabase as one record, document name -> content.
Mem(ms, mb, st, b, sub, up) ==
  [message_store |-> ms, message_batch |-> mb, stats |-> st, batches |-> b,
   subscriptions |-> sub, user_profiles |-> up]

CurMem == Mem(message_store, message_batch, stats, batches, subscriptions, user_profiles)

Boot ==
  /\ now = 0
  /\ last_save = <<>>
  /\ message_store = <<>>
  /\ message_batch = <<>>
  /\ stats = EmptyStats
  /\ batches = <<>>
  /\ subscriptions = <<>>
  /\ user_profiles = <<>>
  /\ disk = Mem(<<>>, <<>>, EmptyStats, <<>>, <<>>, <<>>)
  /\ user_data = [u \in Users |-> <<>>]
  /\ reply = "Start"
  /\ fanout = Idle
  /\ cleanups = {}
  /\ deletions = {}

Init == Boot /\ budget = MaxSteps

\* ------------------------------------------------------------ dict helpers
Get(d, k, default) == IF k \in DOMAIN d THEN d[k] ELSE default
Put(d, k, v) == [x \in DOMAIN d \cup {k} |-> IF x = k THEN v ELSE d[x]]
Del(d, k) == [x \in DOMAIN d \ {k} |-> d[x]]

RECURSIVE SumOf(_, _)
SumOf(f, S) ==
  IF S = {} THEN 0
  ELSE LET x == CHOOSE y \in S : TRUE IN f[x] + SumOf(f, S \ {x})

Total(f) == SumOf(f, DOMAIN f)

\* ------------------------------------------------------------ persistence
\* (a flush once the interval has passed, and not only after it)
_should_save_at_interval(ls, d, t) ==
  \/ d \notin DOMAIN ls
  \/ t - ls[d] >= SaveInterval

\* (a flush on every call, with no interval)
_should_save_always(ls, d, t) == TRUE

\* _should_save(filepath) at clock reading t, given _last_save = ls.
_should_save(ls, d, t) ==
  \/ d \notin DOMAIN ls
  \/ t - ls[d] > SaveInterval

\* (a write whose exception is not caught)
save_data_uncaught(ok) == ~ ok

\* FileManager.save_data (lines 50-56), ok whether the write succeeds: TRUE
\* when an exception of the write leaves save_data. Its except clause logs
\* every exception, so none does.
save_data(ok) == FALSE

\* save_all(): p = [last, disk, fault] before, mem the tables at the call, ok
\* whether the writes to disk succeed; fault: an exception left a save.
save_all(p, mem, t, ok) ==
  [last |-> [d \in Docs |-> IF _should_save(p.last, d, t) THEN t ELSE p.last[d]],
   disk |-> [d \in Docs |-> IF _should_save(p.last, d, t) /\ ok THEN mem[d] ELSE p.disk[d]],
   fault |-> p.fault \/ ((\E d \in Docs : _should_save(p.last, d, t)) /\ save_data(ok))]

P0 == [last |-> last_save, disk |-> disk, fault |-> FALSE]

\* -------------------------------------------------------- identity resolver
\* BotDatabase.get_batch_key on the batch table b.
get_batch_key_exact(b, batch_name) == batch_name

get_batch_key(b, batch_name) ==
  LET low == Lower(batch_name)
      hits == {key \in DOMAIN b : Lower(key) = low}
  IN IF hits # {} THEN CHOOSE key \in hits : TRUE ELSE low

\* ------------------------------------------------------ subscription registry
is_subscribed(sub, user_id, batch_name) == user_id \in DOMAIN Get(sub, batch_name, <<>>)

\* BotDatabase.subscribe, without its save_all.
subscribe_alone(sub, user_id, batch_name, t) ==
  Put(sub, batch_name, Put(<<>>, user_id, t))

subscribe(sub, user_id, batch_name, t) ==
  Put(sub, batch_name, Put(Get(sub, batch_name, <<>>), user_id, t))

\* BotDatabase.unsubscribe, without its save_all.
unsubscribe_everyone(sub, user_id, batch_name) ==
  IF batch_name \in DOMAIN sub /\ user_id \in DOMAIN sub[batch_name]
  THEN Del(sub, batch_name)
  ELSE sub

unsubscribe(sub, user_id, batch_name) ==
  IF batch_name \in DOMAIN sub /\ user_id \in DOMAIN sub[batch_name]
  THEN LET rest == Del(sub[batch_name], user_id)
       IN IF DOMAIN rest = {} THEN Del(sub, batch_name) ELSE Put(sub, batch_name, rest)
  ELSE sub

get_subscribers(sub, batch_name) == DOMAIN Get(sub, batch_name, <<>>)

get_user_subscriptions(sub, user_id) ==
  {batch_name \in DOMAIN sub : user_id \in DOMAIN sub[batch_name]}

\* ------------------------------------------------------------ user profiles
UserName(u) == IF u = 1 THEN "alice" ELSE "bob"
FirstName(u) == IF u = 1 THEN "Alice" ELSE "Bob"

\* (last_updated is written here and read nowhere; it is left out)
update_user_profile(up, u, t) ==
  Put(up, u, [username |-> UserName(u), first_name |-> FirstName(u)])

\* -------------------------------------------------------------- ingestion
\* f"msg_{int(datetime.now().timestamp())}"
MsgKey(t) == <<"m", "s", "g", "_", ToString(t)>>

Supported(m) == m.kind \in Kinds

\* _extract_message_data; None for a message of no supported kind.
_extract_message_data(u, m, t) ==
  LET base == [type |-> m.kind, user_id |-> u, username |-> UserName(u),
               first_name |-> FirstName(u), date |-> t]
  IN IF m.kind = "text" THEN [text |-> m.body] @@ base
     ELSE IF m.kind \in Kinds THEN [file_id |-> m.body] @@ base
     ELSE None

\* message.text, None for a message that carries no text.
TextOf(m) == IF m.kind = "text" THEN m.body ELSE None

\* str.strip() of the bodies the model sends.
Strip(s) == IF s = " " THEN "" ELSE s

\* What a handler leaves behind: the tables, the flush state p, the session
\* data and the response; the clock does not move inside a handler. A
\* handler that an exception leaves sends no response.
Effects(ms, mb, st, b, sub, up, p, ud, r) ==
  /\ budget > 0
  /\ ~ Busy
  /\ budget' = budget - 1
  /\ message_store' = ms
  /\ message_batch' = mb
  /\ stats' = st
  /\ batches' = b
  /\ subscriptions' = sub
  /\ user_profiles' = up
  /\ last_save' = p.last
  /\ disk' = p.disk
  /\ user_data' = ud
  /\ reply' = IF p.fault THEN "Unhandled" ELSE r
  /\ now' = now

\* A handler that notifies no subscriber and arms no cleanup.
Out(ms, mb, st, b, sub, up, p, ud, r) ==
  /\ Effects(ms, mb, st, b, sub, up, p, ud, r)
  /\ UNCHANGED <<fanout, cleanups, deletions>>

\* (a delivery that arms no cleanup)
OutUnarmed(ms, mb, st, b, sub, up, p, ud, r, message_ids) ==
  Out(ms, mb, st, b, sub, up, p, ud, r)

\* A handler that delivered content: asyncio.create_task(_cleanup_messages(
\* message_ids)) arms a cleanup of the messages it sent and of its trigger.
OutArmed(ms, mb, st, b, sub, up, p, ud, r, message_ids) ==
  /\ Effects(ms, mb, st, b, sub, up, p, ud, r)
  /\ cleanups' = cleanups \cup {[due |-> now + CleanupDelay] @@ message_ids}
  /\ UNCHANGED <<fanout, deletions>>

\* (a counter that is left for a later step)
BumpKindLater(st, k) == st

\* db.stats["message_types"][message_data["type"]] += 1
BumpKind(st, k) == [st EXCEPT !.message_types[k] = @ + 1]

\* (a standalone message that is acknowledged and not stored)
_store_message_nowhere(u, m, up, p, ok) ==
  Out(message_store, message_batch, stats, batches, subscriptions, up, p, user_data, "Saved")

\* _store_message, entered with profiles up and flush state p.
_store_message(u, m, up, p, ok) ==
  LET message_key == MsgKey(now)
      message_data == _extract_message_data(u, m, now)
  IN IF ~Supported(m)
     THEN Out(message_store, message_batch, stats, batches, subscriptions, up, p,
              user_data, "NoResponse")
     ELSE LET ms == Put(message_store, message_key, message_data)
              st == BumpKind(stats, message_data.type)
          IN Out(ms, message_batch, st, batches, subscriptions, up,
                 save_all(p, Mem(ms, message_batch, st, batches, subscriptions, up), now, ok),
                 user_data, "Saved")

\* _add_to_batch's update of the batch record: the key is appended to
\* "messages" and "last_updated" is stamped (lines 524-529).
append_item_twice(b, batch_name, message_key, t) ==
  [b EXCEPT ![batch_name].messages = Append(Append(@, message_key), message_key),
            ![batch_name].last_updated = t]

append_item(b, batch_name, message_key, t) ==
  [b EXCEPT ![batch_name].messages = Append(@, message_key),
            ![batch_name].last_updated = t]

\* The orders in which a dict of the users S can list them.
Orders(S) ==
  {q \in [1..Cardinality(S) -> S] : \A i, j \in 1..Cardinality(S) : q[i] = q[j] => i = j}

\* The frame of _add_to_batch as it enters "for user_id in subscribers": the
\* list it walks, the index of the next subscriber, the sends issued so far.
Frame(u, batch_name, message_key, kind, order) ==
  [pc |-> "sending", user |-> u, batch |-> batch_name, key |-> message_key,
   kind |-> kind, subscribers |-> order, i |-> 1, log |-> <<>>]

\* (an append that does not look whether its batch is there)
batch_never_gone(b, batch_name) == FALSE

\* _add_to_batch's first test (line 510): batch_name not in db.batches
batch_gone(b, batch_name) == batch_name \notin DOMAIN b

\* _add_to_batch, entered with profiles up and flush state p.
_add_to_batch(u, m, batch_name, up, p, ok) ==
  IF batch_gone(batches, batch_name)
  THEN Out(message_store, message_batch, stats, batches, subscriptions, up, p,
           user_data, "BatchNoLongerExists")
  ELSE
    LET message_key == MsgKey(now)
        message_data == _extract_message_data(u, m, now)
    IN IF ~Supported(m)
       THEN Out(message_store, message_batch, stats, batches, subscriptions, up, p,
                user_data, "NoResponse")
       ELSE LET mb == Put(message_batch, message_key, [batch |-> batch_name] @@ message_data)
                b == append_item(batches, batch_name, message_key, now)
                st == BumpKind(stats, message_data.type)
                subscribers == get_subscribers(subscriptions, batch_name)
                saved == save_all(p, Mem(message_store, mb, st, b, subscriptions, up), now, ok)
            IN IF subscribers = {}
               THEN Out(message_store, mb, st, b, subscriptions, up, saved,
                        user_data, "Added")
               ELSE /\ Effects(message_store, mb, st, b, subscriptions, up, saved,
                               user_data, "Notifying")
                    /\ \E order \in Orders(subscribers) :
                         fanout' = Frame(u, batch_name, message_key, message_data.type, order)
                    /\ UNCHANGED <<cleanups, deletions>>

\* The outcomes of one awaited context.bot.send_*: it returns, it raises, or
\* it never completes.
Outcomes == {"sent", "error", "hung"}

\* What one send of the loop carries: a sticker goes alone and its notice
\* follows in a message of its own; every other kind carries the notice.
Part(f) ==
  IF f.pc = "notice" THEN "notice"
  ELSE IF f.kind = "sticker" THEN "sticker" ELSE "item+notice"

\* (a loop that leaves after its first subscriber)
AdvanceToEnd(f, outcome) ==
  IF outcome = "hung" THEN "hung"
  ELSE IF f.pc = "sending" /\ f.kind = "sticker" /\ outcome = "sent" THEN "notice"
  ELSE "acking"

\* (a loop without its try/except: an exception ends the handler)
AdvanceUncaught(f, outcome) ==
  IF outcome = "hung" THEN "hung"
  ELSE IF outcome = "error" THEN "done"
  ELSE IF f.pc = "sending" /\ f.kind = "sticker" THEN "notice"
  ELSE IF f.i < Len(f.subscribers) THEN "sending"
  ELSE "acking"

\* Where the loop stands after the send to subscribers[i] had the outcome.
Advance(f, outcome) ==
  IF outcome = "hung" THEN "hung"
  ELSE IF f.pc = "sending" /\ f.kind = "sticker" /\ outcome = "sent" THEN "notice"
  ELSE IF f.i < Len(f.subscribers) THEN "sending"
  ELSE "acking"

\* One "await context.bot.send_..." of the loop (lines 541-604): the send to
\* subscribers[i] is issued and has the outcome; an exception is caught
\* and logged and the loop goes on to the next subscriber.
Deliver(outcome) ==
  /\ fanout.pc \in {"sending", "notice"}
  /\ LET pc == Advance(fanout, outcome)
     IN fanout' = [fanout EXCEPT
          !.log = Append(@, [to |-> fanout.subscribers[fanout.i], part |-> Part(fanout),
                             outcome |-> outcome]),
          !.pc = pc,
          !.i = IF pc \in {"hung", "notice"} THEN @ ELSE @ + 1]
  /\ UNCHANGED <<now, last_save, message_store, message_batch, stats, batches,
                 subscriptions, user_profiles, disk, user_data, reply, cleanups,
                 deletions, budget>>

\* "await message.reply_text("Added message to batch ...")" after the loop
\* (lines 607-612).
Acknowledge ==
  /\ fanout.pc = "acking"
  /\ fanout' = [fanout EXCEPT !.pc = "done"]
  /\ reply' = "Added"
  /\ UNCHANGED <<now, last_save, message_store, message_batch, stats, batches,
                 subscriptions, user_profiles, disk, user_data, cleanups,
                 deletions, budget>>
\* ------------------------------------------------------------ session data
Pop(ud, k) == Del(ud, k)
SetUD(u, ud) == [user_data EXCEPT ![u] = ud]

\* datetime.strptime(date_str, "%Y-%m-%d") succeeds
IsDate(s) == s = "2024-03-20"
\* the calendar day of a clock reading: every reading of a run is on one day
DateOf(t) == "2024-03-20"

\* handle_message, pending date search (lines 290-356)
DateSearchInput(u, m, up, p) ==
  LET batch_name == user_data[u]["date_search_batch"]
      ud == SetUD(u, Pop(user_data[u], "date_search_batch"))
      r == IF TextOf(m) = None THEN "Unhandled"
           ELSE IF ~IsDate(Strip(TextOf(m))) THEN "InvalidDate"
           ELSE IF batch_name \notin DOMAIN batches THEN "Unhandled"
           ELSE IF \E i \in 1..Len(batches[batch_name].messages) :
                     LET k == batches[batch_name].messages[i]
                     IN k \in DOMAIN message_batch
                        /\ DateOf(message_batch[k].date) = Strip(TextOf(m))
                THEN "DateResults"
                ELSE "NoDateMatches"
  IN Out(message_store, message_batch, stats, batches, subscriptions, up, p, ud, r)

\* handle_message, pending banner (lines 358-397)
BannerInput(u, m, up, p, ok) ==
  LET batch_name == user_data[u]["setting_banner"]
      ud == SetUD(u, Pop(user_data[u], "setting_banner"))
  IN IF batch_name \notin DOMAIN batches
     THEN Out(message_store, message_batch, stats, batches, subscriptions, up, p, ud,
              "BatchNoLongerExists")
     ELSE IF u # batches[batch_name].created_by
     THEN Out(message_store, message_batch, stats, batches, subscriptions, up, p, ud,
              "Forbidden")
     ELSE IF m.kind # "photo"
     THEN Out(message_store, message_batch, stats, batches, subscriptions, up, p, ud,
              "NeedPhoto")
     ELSE LET b == [batches EXCEPT ![batch_name].banner_pic = m.body]
          IN Out(message_store, message_batch, stats, b, subscriptions, up,
                 save_all(p, Mem(message_store, message_batch, stats, b, subscriptions, up), now, ok),
                 ud, "BannerSet")

\* handle_message, pending description or teacher edit (lines 399-479);
\* key is the session key, field the batch field it edits.
EditInput(u, m, up, p, ok, key, field) ==
  LET batch_name == user_data[u][key]
      ud == SetUD(u, Pop(user_data[u], key))
  IN IF batch_name \notin DOMAIN batches
     THEN Out(message_store, message_batch, stats, batches, subscriptions, up, p, ud,
              "BatchNoLongerExists")
     ELSE IF u # batches[batch_name].created_by
     THEN Out(message_store, message_batch, stats, batches, subscriptions, up, p, ud,
              "Forbidden")
     ELSE IF TextOf(m) = None
     THEN Out(message_store, message_batch, stats, batches, subscriptions, up, p, ud,
              "Unhandled")
     ELSE IF Strip(TextOf(m)) = ""
     THEN Out(message_store, message_batch, stats, batches, subscriptions, up, p, ud,
              "EmptyInput")
     ELSE LET b == [batches EXCEPT ![batch_name][field] = Strip(TextOf(m))]
          IN Out(message_store, message_batch, stats, b, subscriptions, up,
                 save_all(p, Mem(message_store, message_batch, stats, b, subscriptions, up), now, ok),
                 ud, "Updated")

\* handle_message (lines 280-486): every non-command message of user u.
handle_message(u, m, ok) ==
  LET up == update_user_profile(user_profiles, u, now)
      p == save_all(P0, Mem(message_store, message_batch, stats, batches, subscriptions, up), now, ok)
      ud == user_data[u]
  IN IF "date_search_batch" \in DOMAIN ud THEN DateSearchInput(u, m, up, p)
     ELSE IF "setting_banner" \in DOMAIN ud THEN BannerInput(u, m, up, p, ok)
     ELSE IF "editing_batch" \in DOMAIN ud THEN EditInput(u, m, up, p, ok, "editing_batch", "description")
     ELSE IF "editing_teacher" \in DOMAIN ud THEN EditInput(u, m, up, p, ok, "editing_teacher", "teacher_name")
     ELSE IF "current_batch" \in DOMAIN ud
     THEN _add_to_batch(u, m, ud["current_batch"], up, p, ok)
     ELSE _store_message(u, m, up, p, ok)

\* ---------------------------------------------------------- batch commands
NewBatch(u, teacher_name, description, t) ==
  [description |-> description, teacher_name |-> teacher_name, created_by |-> u,
   created_at |-> t, last_updated |-> t, messages |-> <<>>, banner_pic |-> None,
   message_types |-> [k \in Kinds |-> 0]]

\* /createbatch <name> <teacher_name> [description] (lines 690-765)
create_batch(u, batch_name, teacher_name, description, ok) ==
  LET existing_batch == get_batch_key(batches, batch_name)
  IN IF existing_batch \in DOMAIN batches
     THEN Out(message_store, message_batch, stats, batches, subscriptions, user_profiles,
              P0, user_data, "DuplicateBatch")
     ELSE LET b == Put(batches, batch_name, NewBatch(u, teacher_name, description, now))
          IN Out(message_store, message_batch, stats, b, subscriptions, user_profiles,
                 save_all(P0, Mem(message_store, message_batch, stats, b, subscriptions, user_profiles), now, ok),
                 user_data, "Created")

\* /setbanner <name>, photo: whether the message carries a photo (lines 767-799)
set_banner(u, batch_name, photo, ok) ==
  LET actual_batch == get_batch_key(batches, batch_name)
  IN IF ~photo
     THEN Out(message_store, message_batch, stats, batches, subscriptions, user_profiles,
              P0, user_data, "NeedPhoto")
     ELSE IF actual_batch \notin DOMAIN batches
     THEN Out(message_store, message_batch, stats, batches, subscriptions, user_profiles,
              P0, user_data, "BatchNotFound")
     ELSE IF u # batches[actual_batch].created_by
     THEN Out(message_store, message_batch, stats, batches, subscriptions, user_profiles,
              P0, user_data, "Forbidden")
     ELSE LET b == [batches EXCEPT ![actual_batch].banner_pic = "f"]
          IN Out(message_store, message_batch, stats, b, subscriptions, user_profiles,
                 save_all(P0, Mem(message_store, message_batch, stats, b, subscriptions, user_profiles), now, ok),
                 user_data, "BannerSet")

\* /addtobatch <name> (lines 801-814)
add_to_batch(u, batch_name) ==
  LET actual_batch == get_batch_key(batches, batch_name)
  IN IF actual_batch \notin DOMAIN batches
     THEN Out(message_store, message_batch, stats, batches, subscriptions, user_profiles,
              P0, user_data, "BatchNotFound")
     ELSE Out(message_store, message_batch, stats, batches, subscriptions, user_profiles,
              P0, SetUD(u, Put(user_data[u], "current_batch", actual_batch)), "ReadyToAdd")

\* /done (lines 816-826)
done_adding(u) ==
  IF "current_batch" \notin DOMAIN user_data[u]
  THEN Out(message_store, message_batch, stats, batches, subscriptions, user_profiles,
           P0, user_data, "NotAdding")
  ELSE Out(message_store, message_batch, stats, batches, subscriptions, user_profiles,
           P0, SetUD(u, Pop(user_data[u], "current_batch")),
           IF user_data[u]["current_batch"] \in DOMAIN batches THEN "Finished" ELSE "Unhandled")

\* /editbatch <name> <new description> (lines 1029-1053)
edit_batch(u, batch_name, new_description, ok) ==
  LET actual_batch == get_batch_key(batches, batch_name)
  IN IF actual_batch \notin DOMAIN batches
     THEN Out(message_store, message_batch, stats, batches, subscriptions, user_profiles,
              P0, user_data, "BatchNotFound")
     ELSE IF u # batches[actual_batch].created_by
     THEN Out(message_store, message_batch, stats, batches, subscriptions, user_profiles,
              P0, user_data, "Forbidden")
     ELSE LET b == [batches EXCEPT ![actual_batch].description = new_description]
          IN Out(message_store, message_batch, stats, b, subscriptions, user_profiles,
                 save_all(P0, Mem(message_store, message_batch, stats, b, subscriptions, user_profiles), now, ok),
                 user_data, "Updated")
\* ---------------------------------------------------------- button payloads
\* callback_data strings, one token per character
P_search_date == <<"s", "e", "a", "r", "c", "h", "_", "d", "a", "t", "e", "_">>
P_page == <<"p", "a", "g", "e", "_">>
P_batch == <<"b", "a", "t", "c", "h", "_">>
P_msg == <<"m", "s", "g", "_">>
P_edit_desc == <<"e", "d", "i", "t", "_", "d", "e", "s", "c", "_">>
P_edit_teacher == <<"e", "d", "i", "t", "_", "t", "e", "a", "c", "h", "e", "r", "_">>
P_set_banner == <<"s", "e", "t", "_", "b", "a", "n", "n", "e", "r", "_">>
P_sub == <<"s", "u", "b", "_">>
P_unsub == <<"u", "n", "s", "u", "b", "_">>
P_confirm_delete == <<"c", "o", "n", "f", "i", "r", "m", "_", "d", "e", "l", "e", "t", "e", "_">>
P_delete_batch == <<"d", "e", "l", "e", "t", "e", "_", "b", "a", "t", "c", "h", "_">>
P_back_to_batch == <<"b", "a", "c", "k", "_", "t", "o", "_", "b", "a", "t", "c", "h", "_">>
D_cmd_help == <<"c", "m", "d", "_", "h", "e", "l", "p">>
D_cmd_start == <<"c", "m", "d", "_", "s", "t", "a", "r", "t">>
D_cmd_listbatches == <<"c", "m", "d", "_", "l", "i", "s", "t", "b", "a", "t", "c", "h", "e", "s">>
D_cmd_profile == <<"c", "m", "d", "_", "p", "r", "o", "f", "i", "l", "e">>
D_batch_info == <<"b", "a", "t", "c", "h", "_", "i", "n", "f", "o">>

\* str.startswith
StartsWith(s, prefix) == Len(s) >= Len(prefix) /\ SubSeq(s, 1, Len(prefix)) = prefix
\* s[n:]
From(s, n) == SubSeq(s, n + 1, Len(s))
\* str.lstrip('_')
RECURSIVE LStrip(_)
LStrip(s) == IF s # <<>> /\ Head(s) = "_" THEN LStrip(Tail(s)) ELSE s

\* str.split("_"): the list of the pieces between underscores
RECURSIVE Split(_)
Split(s) ==
  IF \A i \in 1..Len(s) : s[i] # "_" THEN <<s>>
  ELSE LET i == CHOOSE j \in 1..Len(s) : s[j] = "_" /\ \A k \in 1..(j - 1) : s[k] # "_"
       IN <<SubSeq(s, 1, i - 1)>> \o Split(From(s, i))

\* "_".join(parts)
RECURSIVE Join(_)
Join(parts) ==
  IF parts = <<>> THEN <<>>
  ELSE IF Len(parts) = 1 THEN parts[1]
  ELSE parts[1] \o <<"_">> \o Join(Tail(parts))

Pages == 0..1
\* int(s) succeeds: s is the decimal form of a page number
IsPage(s) == \E n \in Pages : s = <<ToString(n)>>

Range(seq) == {seq[i] : i \in 1..Len(seq)}

\* The page of _show_batch_messages (lines 1698-1734): the message buttons
\* of page number page, one for every key of the slice that is in the
\* batch-item table mb.
MESSAGES_PER_PAGE == 8
total_pages(messages) == (Len(messages) + MESSAGES_PER_PAGE - 1) \div MESSAGES_PER_PAGE
Min(x, y) == IF x < y THEN x ELSE y
PageKeys(messages, mb, page) ==
  LET start_idx == page * MESSAGES_PER_PAGE
      end_idx == Min(start_idx + MESSAGES_PER_PAGE, Len(messages))
      IsStored(msg_key) == msg_key \in DOMAIN mb
  IN SelectSeq(SubSeq(messages, start_idx + 1, end_idx), IsStored)

\* _show_batch_messages (lines 1642-1791)
_show_batch_messages(u, batch_name, ok) ==
  IF batch_name \notin DOMAIN batches
  THEN Out(message_store, message_batch, stats, batches, subscriptions, user_profiles,
           P0, user_data, "BatchNoLongerExists")
  ELSE IF batches[batch_name].messages = <<>>
  THEN Out(message_store, message_batch, stats, batches, subscriptions, user_profiles,
           P0, user_data, "EmptyBatch")
  ELSE LET st == [stats EXCEPT !.batch_views = Put(@, batch_name, Get(@, batch_name, 0) + 1)]
       IN Out(message_store, message_batch, st, batches, subscriptions, user_profiles,
              save_all(P0, Mem(message_store, message_batch, st, batches, subscriptions, user_profiles), now, ok),
              user_data, "BatchPage")

\* (view counters that also count a view of the item's batch)
CountViewAndBatch(st, message_key, u) ==
  LET B == IF message_key \in DOMAIN message_batch THEN message_batch[message_key].batch ELSE None
  IN [st EXCEPT !.views = Put(@, message_key, Get(@, message_key, 0) + 1),
                !.users = Put(@, u, Get(@, u, 0) + 1),
                !.batch_views = IF B = None THEN @ ELSE Put(@, B, Get(@, B, 0) + 1)]

\* The view counters of _show_message and findmsg.
CountView(st, message_key, u) ==
  [st EXCEPT !.views = Put(@, message_key, Get(@, message_key, 0) + 1),
             !.users = Put(@, u, Get(@, u, 0) + 1)]

\* message_ids (lines 1882-1886, 2491-2495): the message that triggered the
\* view, the one message the view sent, the chat. Message ids are modelled
\* by what the message is: the n-th content message is <<"content", n>>.
MessageIds(u, original, n) ==
  [original |-> original, sent |-> {<<"content", n>>}, chat_id |-> u]

\* _show_message (lines 1793-1908); sent: whether the delivery succeeds
_show_message(u, message_key, sent, ok) ==
  IF message_key \notin DOMAIN message_store /\ message_key \notin DOMAIN message_batch
  THEN Out(message_store, message_batch, stats, batches, subscriptions, user_profiles,
           P0, user_data, "MessageUnavailable")
  ELSE LET st == CountView(stats, message_key, u)
           saved == save_all(P0, Mem(message_store, message_batch, st, batches, subscriptions, user_profiles), now, ok)
       IN IF sent
          THEN OutArmed(message_store, message_batch, st, batches, subscriptions,
                        user_profiles, saved, user_data, "Delivered",
                        MessageIds(u, <<"page", 0>>, Total(st.users)))
          ELSE Out(message_store, message_batch, st, batches, subscriptions,
                   user_profiles, saved, user_data, "DeliveryError")

\* The creator-only buttons that open a session: edit_desc_, edit_teacher_,
\* set_banner_ (lines 1180-1325); key is the session key they set.
OpenSessionToAnyone(u, batch_name, key, asked) ==
  IF batch_name \notin DOMAIN batches
  THEN Out(message_store, message_batch, stats, batches, subscriptions, user_profiles,
           P0, user_data, "BatchNoLongerExists")
  ELSE Out(message_store, message_batch, stats, batches, subscriptions, user_profiles,
           P0, SetUD(u, Put(user_data[u], key, batch_name)), asked)

OpenSession(u, batch_name, key, asked) ==
  IF batch_name \notin DOMAIN batches
  THEN Out(message_store, message_batch, stats, batches, subscriptions, user_profiles,
           P0, user_data, "BatchNoLongerExists")
  ELSE IF u # batches[batch_name].created_by
  THEN Out(message_store, message_batch, stats, batches, subscriptions, user_profiles,
           P0, user_data, "Forbidden")
  ELSE Out(message_store, message_batch, stats, batches, subscriptions, user_profiles,
           P0, SetUD(u, Put(user_data[u], key, batch_name)), asked)

\* confirm_delete_'s loop over the batch's keys (lines 1392-1394)
keep_items(mb, doomed) == mb

delete_items(mb, doomed) == [k \in DOMAIN mb \ doomed |-> mb[k]]

\* confirm_delete_ (lines 1351-1430)
ConfirmDelete(u, batch_name, ok) ==
  IF batch_name \notin DOMAIN batches
  THEN Out(message_store, message_batch, stats, batches, subscriptions, user_profiles,
           P0, user_data, "BatchNoLongerExists")
  ELSE IF u # batches[batch_name].created_by
  THEN Out(message_store, message_batch, stats, batches, subscriptions, user_profiles,
           P0, user_data, "Forbidden")
  ELSE LET doomed == Range(batches[batch_name].messages)
           mb == delete_items(message_batch, doomed)
           b == Del(batches, batch_name)
       IN Out(message_store, mb, stats, b, subscriptions, user_profiles,
              save_all(P0, Mem(message_store, mb, stats, b, subscriptions, user_profiles), now, ok),
              user_data, "Deleted")

\* delete_batch_ (lines 1432-1492): asks for the confirmation
DeleteRequest(u, batch_name) ==
  Out(message_store, message_batch, stats, batches, subscriptions, user_profiles,
      P0, user_data,
      IF batch_name \notin DOMAIN batches THEN "BatchNoLongerExists"
      ELSE IF u # batches[batch_name].created_by THEN "Forbidden"
      ELSE "ConfirmDelete")

\* sub_ (lines 1327-1335)
Subscribe(u, batch_name, ok) ==
  IF batch_name \in DOMAIN batches
  THEN LET sub == subscribe(subscriptions, u, batch_name, now)
       IN Out(message_store, message_batch, stats, batches, sub, user_profiles,
              save_all(P0, Mem(message_store, message_batch, stats, batches, sub, user_profiles), now, ok),
              user_data, "Subscribed")
  ELSE Out(message_store, message_batch, stats, batches, subscriptions, user_profiles,
           P0, user_data, "NoResponse")

\* unsub_ (lines 1337-1345); unsubscribe saves only when it removed something
Unsubscribe(u, batch_name, ok) ==
  IF batch_name \in DOMAIN batches
  THEN LET sub == unsubscribe(subscriptions, u, batch_name)
       IN Out(message_store, message_batch, stats, batches, sub, user_profiles,
              IF sub # subscriptions
              THEN save_all(P0, Mem(message_store, message_batch, stats, batches, sub, user_profiles), now, ok)
              ELSE P0,
              user_data, "Unsubscribed")
  ELSE Out(message_store, message_batch, stats, batches, subscriptions, user_profiles,
           P0, user_data, "NoResponse")

\* search_date_ (lines 1066-1091)
SearchDatePick(u, batch_name) ==
  IF batch_name \notin DOMAIN batches
  THEN Out(message_store, message_batch, stats, batches, subscriptions, user_profiles,
           P0, user_data, "BatchNoLongerExists")
  ELSE Out(message_store, message_batch, stats, batches, subscriptions, user_profiles,
           P0, SetUD(u, Put(user_data[u], "date_search_batch", batch_name)), "AskDate")

\* back_to_batch_ (lines 1494-1514) and batch_info's own decoding (line 841)
BackToBatch(u, data) ==
  Out(message_store, message_batch, stats, batches, subscriptions, user_profiles,
      P0, user_data,
      IF LStrip(From(data, 13)) \notin DOMAIN batches THEN "BatchNoLongerExists"
      ELSE IF get_batch_key(batches, LStrip(From(data, 13))) \in DOMAIN batches THEN "BatchInfo"
      ELSE "BatchNotFound")

\* cmd_profile (lines 1516-1570) and /profile (lines 2295-2339)
profile(u, ok) ==
  LET up == update_user_profile(user_profiles, u, now)
  IN Out(message_store, message_batch, stats, batches, subscriptions, up,
         save_all(P0, Mem(message_store, message_batch, stats, batches, subscriptions, up), now, ok),
         user_data, "Profile")

Say(r) ==
  Out(message_store, message_batch, stats, batches, subscriptions, user_profiles,
      P0, user_data, r)

\* ----------------------------------------------------------- share tokens
P_share == <<"s", "h", "a", "r", "e", "_">>

\* batch["share_tokens"] is a dict (written by the share button) or a list
\* (written by /sharebatch); a batch record is created without the field.
HasTokens(batch) == "share_tokens" \in DOMAIN batch
IsDict(batch) == HasTokens(batch) /\ batch.share_tokens.type = "dict"
IsList(batch) == HasTokens(batch) /\ batch.share_tokens.type = "list"
\* db.batches[batch_name]["share_tokens"] = x
SetTokens(b, batch_name, x) ==
  [b EXCEPT ![batch_name] = [share_tokens |-> x] @@ @]

\* f"batch_{batch_name}_{sharer_id}_{int(datetime.now().timestamp())}"
ButtonToken(batch_name, u, t) ==
  P_batch \o batch_name \o <<"_", ToString(u), "_", ToString(t)>>

\* f"batch_{actual_batch}_{int(datetime.now().timestamp())}"; the sharer u
\* is not part of it
CommandToken(batch_name, u, t) == P_batch \o batch_name \o <<"_", ToString(t)>>

\* The share button, share_<name> (lines 1572-1640). Writing a dict entry
\* into a list raises TypeError.
ShareButton(u, batch_name, ok) ==
  IF batch_name \notin DOMAIN batches THEN Say("BatchNoLongerExists")
  ELSE IF IsList(batches[batch_name]) THEN Say("Unhandled")
  ELSE LET share_token == ButtonToken(batch_name, u, now)
           old == IF HasTokens(batches[batch_name]) THEN batches[batch_name].share_tokens.of ELSE <<>>
           info == [sharer_id |-> u, sharer_name |-> FirstName(u), shared_at |-> now]
           b == SetTokens(batches, batch_name, [type |-> "dict", of |-> Put(old, share_token, info)])
       IN Out(message_store, message_batch, stats, b, subscriptions, user_profiles,
              save_all(P0, Mem(message_store, message_batch, stats, b, subscriptions, user_profiles), now, ok),
              user_data, "ShareLink")

\* /sharebatch <batch_name> (lines 2510-2570). A dict has no append:
\* AttributeError.
share_batch(u, batch_name, ok) ==
  LET actual_batch == get_batch_key(batches, batch_name)
  IN IF actual_batch \notin DOMAIN batches THEN Say("BatchNotFound")
     ELSE IF IsDict(batches[actual_batch]) THEN Say("Unhandled")
     ELSE LET share_token == CommandToken(actual_batch, u, now)
              old == IF HasTokens(batches[actual_batch]) THEN batches[actual_batch].share_tokens.of ELSE <<>>
              b == SetTokens(batches, actual_batch, [type |-> "list", of |-> Append(old, share_token)])
          IN Out(message_store, message_batch, stats, b, subscriptions, user_profiles,
                 save_all(P0, Mem(message_store, message_batch, stats, b, subscriptions, user_profiles), now, ok),
                 user_data, "ShareLink")

\* start's reading of a token: "_".join(share_token.split("_")[1:-2])
TokenBatch(share_token) ==
  LET parts == Split(share_token)
  IN Join(SubSeq(parts, 2, Len(parts) - 2))

\* /start <share_token> (lines 177-229); arg = <<>>: /start without one.
\* Looking a token up by name in a list raises TypeError.
start(u, arg) ==
  IF arg # <<>> /\ StartsWith(arg, P_batch) /\ Len(Split(arg)) >= 3
  THEN LET batch_name == TokenBatch(arg)
       IN IF batch_name \notin DOMAIN batches THEN Say("SharedBatchGone")
          ELSE IF IsList(batches[batch_name]) /\ arg \in Range(batches[batch_name].share_tokens.of)
          THEN Say("Unhandled")
          ELSE Say("BatchInfo")
  ELSE Say("Welcome")

\* handle_callback (lines 1059-1640): the button payload data pressed by u;
\* the branches are tried in the order of the source.
handle_callback(u, data, sent, ok) ==
  IF StartsWith(data, P_search_date) THEN SearchDatePick(u, From(data, 12))
  ELSE IF data = D_cmd_help THEN Say("Help")
  ELSE IF data = D_cmd_start THEN Say("Welcome")
  ELSE IF StartsWith(data, P_page)
    THEN LET parts == Split(data)
         IN IF IsPage(parts[Len(parts)])
            THEN _show_batch_messages(u, Join(SubSeq(parts, 2, Len(parts) - 1)), ok)
            ELSE Say("PageError")
  ELSE IF StartsWith(data, P_batch)
    THEN IF data = D_batch_info THEN Say("Usage")
         ELSE _show_batch_messages(u, LStrip(From(data, 6)), ok)
  ELSE IF StartsWith(data, P_msg) THEN _show_message(u, From(data, 4), sent, ok)
  ELSE IF StartsWith(data, P_edit_desc)
    THEN OpenSession(u, LStrip(From(data, 10)), "editing_batch", "AskDescription")
  ELSE IF StartsWith(data, P_edit_teacher)
    THEN OpenSession(u, LStrip(From(data, 12)), "editing_teacher", "AskTeacher")
  ELSE IF StartsWith(data, P_set_banner)
    THEN OpenSession(u, LStrip(From(data, 11)), "setting_banner", "AskBanner")
  ELSE IF StartsWith(data, P_sub) THEN Subscribe(u, From(data, 4), ok)
  ELSE IF StartsWith(data, P_unsub) THEN Unsubscribe(u, From(data, 6), ok)
  ELSE IF data = D_cmd_listbatches THEN Say("BatchList")
  ELSE IF StartsWith(data, P_confirm_delete) THEN ConfirmDelete(u, LStrip(From(data, 14)), ok)
  ELSE IF StartsWith(data, P_delete_batch) THEN DeleteRequest(u, LStrip(From(data, 12)))
  ELSE IF StartsWith(data, P_back_to_batch) THEN BackToBatch(u, data)
  ELSE IF data = D_cmd_profile THEN profile(u, ok)
  ELSE IF StartsWith(data, P_share) THEN ShareButton(u, LStrip(From(data, 6)), ok)
  ELSE Say("NoResponse")

\* /findmsg <message_id> (lines 2367-2508)
findmsg(u, message_id, sent, ok) ==
  LET ms == disk["message_store"]
      mb == disk["message_batch"]
  IN IF message_id \notin DOMAIN ms /\ message_id \notin DOMAIN mb
     THEN Out(ms, mb, stats, batches, subscriptions, user_profiles, P0, user_data,
              "MessageNotFound")
     ELSE LET st == CountView(stats, message_id, u)
              saved == save_all(P0, Mem(ms, mb, st, batches, subscriptions, user_profiles), now, ok)
          IN IF sent
             THEN OutArmed(ms, mb, st, batches, subscriptions, user_profiles, saved,
                           user_data, "Delivered",
                           MessageIds(u, <<"command", Total(st.users)>>, Total(st.users)))
             ELSE Out(ms, mb, st, batches, subscriptions, user_profiles, saved,
                      user_data, "DeliveryError")

\* ---------------------------------------------------------------- cleanup
\* Application.get_current() in the cleanup task: TRUE it returns the
\* application, FALSE it raises. The library is not part of the repository.
Lookups == BOOLEAN

\* The ids a cleanup task recorded at delivery time.
Recorded(t) == t.sent \cup {t.original}

\* (a cleanup whose first failed deletion ends it)
delete_until_failure(t, fails) ==
  {[task |-> t, chat_id |-> t.chat_id, id |-> i, ok |-> i \notin fails] :
     i \in t.sent \cup (IF t.sent \cap fails = {} THEN {t.original} ELSE {})}

\* (deletions that name no chat of their own)
delete_each_unaddressed(t, fails) ==
  {[task |-> t, chat_id |-> 0, id |-> i, ok |-> i \notin fails] : i \in Recorded(t)}

\* The delete_message calls of a task that reached its loop: one for every
\* sent id and one for the trigger, each in a try of its own, in the chat
\* the task recorded; fails are the ids whose deletion raises.
delete_each(t, fails) ==
  {[task |-> t, chat_id |-> t.chat_id, id |-> i, ok |-> i \notin fails] : i \in Recorded(t)}

\* _cleanup_messages (lines 1910-1939), from the moment its sleep is over:
\* when the lookup raises, the outer except logs and nothing is deleted.
_cleanup_messages(t, found, fails) ==
  /\ t \in cleanups
  /\ now >= t.due
  /\ cleanups' = cleanups \ {t}
  /\ deletions' = IF found THEN deletions \cup delete_each(t, fails) ELSE deletions
  /\ UNCHANGED <<now, last_save, message_store, message_batch, stats, batches,
                 subscriptions, user_profiles, disk, user_data, reply, fanout,
                 budget>>

\* ------------------------------------------------------------------- time
\* The clock advances by d seconds: by a second, or by just more than the
\* save interval.
TickSteps == {1, SaveInterval + 1}

Tick(d) ==
  /\ budget > 0
  /\ budget' = budget - 1
  /\ now' = now + d
  /\ UNCHANGED <<last_save, message_store, message_batch, stats, batches,
                 subscriptions, user_profiles, disk, user_data, reply, fanout,
                 cleanups, deletions>>

\* ------------------------------------------------------------------ inputs
\* The message ids a user can have seen, and one that was never issued.
KnownKeys ==
  DOMAIN message_store \cup DOMAIN message_batch
  \cup DOMAIN disk["message_store"] \cup DOMAIN disk["message_batch"]
  \cup UNION {Range(batches[n].messages) : n \in DOMAIN batches}
Keys == KnownKeys \cup {MsgKey(-1)}
Button(prefix, S) == {prefix \o name : name \in S}
\* outcomes of the delivery of item k to the chat: TRUE it is sent; an item
\* that is not stored is never delivered
Deliveries(k) == IF k \in KnownKeys THEN BOOLEAN ELSE {TRUE}

\* The content store: ingestion, views, /findmsg, flushes, batch deletion.
\* a text message and a message of no supported kind
StoreMessages == {m \in Messages : m.kind # "photo"}
StoreNames == { <<"a">>, <<"sz">> }
StorePayloads ==
  Button(P_confirm_delete, StoreNames) \cup Button(P_batch, StoreNames)
  \cup Button(P_msg, Keys)

Next ==
  \/ \E d \in TickSteps : Tick(d)
  \/ \E u \in Users, m \in StoreMessages, ok \in Writes : handle_message(u, m, ok)
  \/ \E u \in Users, n \in StoreNames, ok \in Writes : create_batch(u, n, "t", "", ok)
  \/ \E u \in Users, n \in StoreNames : add_to_batch(u, n)
  \/ \E u \in Users : done_adding(u)
  \/ \E u \in Users, data \in StorePayloads, ok \in Writes :
       \E sent \in Deliveries(From(data, 4)) : handle_callback(u, data, sent, ok)
  \/ \E u \in Users, k \in Keys, ok \in Writes :
       \E sent \in Deliveries(k) : findmsg(u, k, sent, ok)

Spec == Init /\ [][Next]_vars

\* Batch ownership: the creator-only edits and deletion of one batch.
OwnerNames == { <<"a">> }
OwnerMessages == {m \in Messages : Supported(m)}
OwnerPayloads ==
  Button(P_edit_desc, OwnerNames) \cup Button(P_edit_teacher, OwnerNames)
  \cup Button(P_set_banner, OwnerNames) \cup Button(P_delete_batch, OwnerNames)
  \cup Button(P_confirm_delete, OwnerNames)

InitOwner == Boot /\ budget = OwnerSteps

NextOwner ==
  \/ \E u \in Users, m \in OwnerMessages, ok \in Writes : handle_message(u, m, ok)
  \/ \E u \in Users, n \in OwnerNames, ok \in Writes : create_batch(u, n, "t", "", ok)
  \/ \E u \in Users, n \in OwnerNames, photo \in BOOLEAN, ok \in Writes : set_banner(u, n, photo, ok)
  \/ \E u \in Users, n \in OwnerNames, ok \in Writes : edit_batch(u, n, "d", ok)
  \/ \E u \in Users, data \in OwnerPayloads, ok \in Writes : handle_callback(u, data, TRUE, ok)

SpecOwner == InitOwner /\ [][NextOwner]_vars

\* The subscription registry and batch names: creation, subscribe,
\* unsubscribe, deletion.
SubsPayloads ==
  Button(P_sub, Names) \cup Button(P_unsub, Names) \cup Button(P_confirm_delete, Names)

InitSubs == Boot /\ budget = SubsSteps

NextSubs ==
  \/ \E d \in TickSteps : Tick(d)
  \/ \E u \in Users, n \in Names, ok \in Writes : create_batch(u, n, "t", "", ok)
  \/ \E u \in Users, data \in SubsPayloads, ok \in Writes : handle_callback(u, data, TRUE, ok)

SpecSubs == InitSubs /\ [][NextSubs]_vars

\* The content store on a disk whose writes can fail.
DiskWrites == BOOLEAN
DiskMessages == { [kind |-> "text", body |-> "x"] }

InitDisk == Boot /\ budget = DiskSteps

NextDisk ==
  \/ \E d \in TickSteps : Tick(d)
  \/ \E u \in Users, m \in DiskMessages, ok \in DiskWrites : handle_message(u, m, ok)
  \/ \E u \in Users, data \in Button(P_msg, Keys), ok \in DiskWrites :
       \E sent \in Deliveries(From(data, 4)) : handle_callback(u, data, sent, ok)
  \/ \E u \in Users, k \in Keys, ok \in DiskWrites :
       \E sent \in Deliveries(k) : findmsg(u, k, sent, ok)

SpecDisk == InitDisk /\ [][NextDisk]_vars

\* Flushes around the save interval: the clock moves by the interval and
\* by more than it; writes to disk can fail.
SaveTicks == {SaveInterval, SaveInterval + 1}
SaveNames == { <<"a">> }

InitSave == Boot /\ budget = SaveSteps

NextSave ==
  \/ \E d \in SaveTicks : Tick(d)
  \/ \E u \in Users, m \in DiskMessages, ok \in DiskWrites : handle_message(u, m, ok)
  \/ \E u \in Users, n \in SaveNames, ok \in DiskWrites : create_batch(u, n, "t", "", ok)
  \/ \E u \in Users, data \in Button(P_msg, Keys), ok \in DiskWrites :
       \E sent \in Deliveries(From(data, 4)) : handle_callback(u, data, sent, ok)

SpecSave == InitSave /\ [][NextSave]_vars

\* Deletion of a flushed batch: its creator fills one batch, the clock
\* passes the save interval, the batch is deleted and its items are asked
\* for again.
DeletedUsers == {1}
DeletedNames == { <<"a">> }
DeletedPayloads == Button(P_msg, KnownKeys) \cup Button(P_confirm_delete, DeletedNames)

InitDeleted == Boot /\ budget = DeletedSteps

NextDeleted ==
  \/ Tick(SaveInterval + 1)
  \/ \E u \in DeletedUsers, n \in DeletedNames, ok \in Writes : create_batch(u, n, "t", "", ok)
  \/ \E u \in DeletedUsers, n \in DeletedNames : add_to_batch(u, n)
  \/ \E u \in DeletedUsers, m \in DiskMessages, ok \in Writes : handle_message(u, m, ok)
  \/ \E u \in DeletedUsers, data \in DeletedPayloads, ok \in Writes :
       handle_callback(u, data, TRUE, ok)
  \/ \E u \in DeletedUsers, k \in KnownKeys, ok \in Writes : findmsg(u, k, TRUE, ok)

SpecDeleted == InitDeleted /\ [][NextDeleted]_vars

\* Routing of content messages: add sessions of two users on one batch,
\* the buttons that open a date search or an edit, and the deletion of the
\* batch.
RoutingNames == { <<"a">> }
RoutingPayloads ==
  Button(P_search_date, RoutingNames) \cup Button(P_edit_desc, RoutingNames)
  \cup Button(P_confirm_delete, RoutingNames)

InitRouting == Boot /\ budget = RoutingSteps

NextRouting ==
  \/ \E u \in Users, n \in RoutingNames, ok \in Writes : create_batch(u, n, "t", "", ok)
  \/ \E u \in Users, n \in RoutingNames : add_to_batch(u, n)
  \/ \E u \in Users : done_adding(u)
  \/ \E u \in Users, m \in DiskMessages, ok \in Writes : handle_message(u, m, ok)
  \/ \E u \in Users, data \in RoutingPayloads, ok \in Writes : handle_callback(u, data, TRUE, ok)

SpecRouting == InitRouting /\ [][NextRouting]_vars

\* Buttons of batches: batches whose names contain or begin with an
\* underscore, and every button that carries a batch name.
ButtonNames == { <<"a">>, <<"_", "a">>, <<"a", "_", "b">> }
ButtonPrefixes ==
  {P_batch, P_edit_desc, P_edit_teacher, P_set_banner, P_delete_batch, P_confirm_delete,
   P_back_to_batch, P_share, P_sub, P_unsub, P_search_date}
\* callback_data=f"<prefix>{batch_name}" and f"page_{batch_name}_{page}"
ButtonsFor(batch_name) ==
  {prefix \o batch_name : prefix \in ButtonPrefixes} \cup {P_page \o batch_name \o <<"_", "0">>}

InitButtons == Boot /\ budget = ButtonSteps

NextButtons ==
  \/ \E u \in Users, n \in ButtonNames, ok \in Writes : create_batch(u, n, "t", "", ok)
  \/ \E u \in Users, n \in ButtonNames, ok \in Writes :
       \E data \in ButtonsFor(n) : handle_callback(u, data, TRUE, ok)

SpecButtons == InitButtons /\ [][NextButtons]_vars

\* Sharing: batches, the share button, /sharebatch, /start with a token,
\* and the clock.
ShareNames == { <<"a">>, <<"sz">> }
\* The tokens that the share operations have issued.
TokensOf(B) ==
  IF ~ HasTokens(batches[B]) THEN {}
  ELSE IF IsDict(batches[B]) THEN DOMAIN batches[B].share_tokens.of
  ELSE Range(batches[B].share_tokens.of)
Issued == UNION {TokensOf(B) : B \in DOMAIN batches}

InitShare == Boot /\ budget = ShareSteps

NextShare ==
  \/ Tick(1)
  \/ \E u \in Users, n \in ShareNames, ok \in Writes : create_batch(u, n, "t", "", ok)
  \/ \E u \in Users, data \in Button(P_share, ShareNames), ok \in Writes :
       handle_callback(u, data, TRUE, ok)
  \/ \E u \in Users, n \in ShareNames, ok \in Writes : share_batch(u, n, ok)
  \/ \E u \in Users, arg \in Issued \cup {<<>>} : start(u, arg)

SpecShare == InitShare /\ [][NextShare]_vars

\* Notification of subscribers: one batch, its subscribers, items appended
\* to it and the sends of _add_to_batch, one at a time.
FanoutNames == { <<"a">> }
FanoutMessages == { [kind |-> "text", body |-> "x"], [kind |-> "sticker", body |-> "s"] }
FanoutPayloads ==
  Button(P_sub, FanoutNames) \cup Button(P_unsub, FanoutNames)
  \cup Button(P_confirm_delete, FanoutNames)

InitFanout == Boot /\ budget = FanoutSteps

NextFanout ==
  \/ \E u \in Users, n \in FanoutNames, ok \in Writes : create_batch(u, n, "t", "", ok)
  \/ \E u \in Users, data \in FanoutPayloads, ok \in Writes : handle_callback(u, data, TRUE, ok)
  \/ \E u \in Users, n \in FanoutNames : add_to_batch(u, n)
  \/ \E u \in Users, m \in FanoutMessages, ok \in Writes : handle_message(u, m, ok)
  \/ \E outcome \in Outcomes : Deliver(outcome)
  \/ Acknowledge

SpecFanout == InitFanout /\ [][NextFanout]_vars

\* Retraction of delivered content: items, views by button and by /findmsg,
\* the clock, the cleanup tasks, and the deletion of a batch.
TimerTicks == {1, CleanupDelay}
TimerNames == { <<"a">> }
TimerMessages == { [kind |-> "text", body |-> "x"] }
TimerPayloads == Button(P_msg, Keys) \cup Button(P_confirm_delete, TimerNames)

InitTimers == Boot /\ budget = TimerSteps

NextTimers ==
  \/ \E d \in TimerTicks : Tick(d)
  \/ \E u \in Users, m \in TimerMessages, ok \in Writes : handle_message(u, m, ok)
  \/ \E u \in Users, n \in TimerNames, ok \in Writes : create_batch(u, n, "t", "", ok)
  \/ \E u \in Users, data \in TimerPayloads, ok \in Writes :
       \E sent \in Deliveries(From(data, 4)) : handle_callback(u, data, sent, ok)
  \/ \E u \in Users, k \in Keys, ok \in Writes :
       \E sent \in Deliveries(k) : findmsg(u, k, sent, ok)
  \/ \E t \in cleanups, found \in Lookups :
       \E fails \in SUBSET Recorded(t) : _cleanup_messages(t, found, fails)

SpecTimers == InitTimers /\ [][NextTimers]_vars
\* ================================================================== claims
\* A content message m of user u is ingested, standalone or into a batch.
Ingestion(u, m) ==
  /\ \E ok \in Writes : handle_message(u, m, ok)
  /\ reply' \in {"Saved", "Added"}

StoredKeys == DOMAIN message_store \cup DOMAIN message_batch

\* C1: every ingested item is stored under a key that no other stored item
\* has, also when two items arrive in the same second: an ingestion adds
\* exactly one key to the tables and overwrites no stored item.
C1_IngestionNeverOverwrites ==
  [][\A u \in Users, m \in Messages :
       Ingestion(u, m) =>
         /\ Cardinality((DOMAIN message_store' \cup DOMAIN message_batch') \ StoredKeys) = 1
         /\ \A k \in DOMAIN message_store :
              k \in DOMAIN message_store' /\ message_store'[k] = message_store[k]
         /\ \A k \in DOMAIN message_batch :
              k \in DOMAIN message_batch' /\ message_batch'[k] = message_batch[k]]_vars

\* C2: whatever the operation (a view, /findmsg, a flush, a batch edit),
\* every standalone item once stored stays in the store unchanged, and every
\* batch item stays unchanged unless its owning batch is deleted by the step.
\* (What an ingestion does to the items stored before it is C1's subject.)
C2_StoredItemsStay ==
  [][(~ \E u \in Users, m \in Messages : Ingestion(u, m)) =>
       /\ \A k \in DOMAIN message_store :
            k \in DOMAIN message_store' /\ message_store'[k] = message_store[k]
       /\ \A k \in DOMAIN message_batch :
            message_batch[k].batch \in DOMAIN batches' =>
              k \in DOMAIN message_batch' /\ message_batch'[k] = message_batch[k]]_vars

\* The batch that the next content message of u is appended to.
current_batch(u) == user_data[u]["current_batch"]

\* A content message m of user u is appended to a batch.
Appending(u, m) ==
  /\ \E ok \in Writes : handle_message(u, m, ok)
  /\ reply' = "Added"

\* C3: appending an item to batch B makes B's list of item keys longer by
\* exactly one, sets its last update to a time not before the previous one,
\* and leaves the lists of all other batches as they were.
C3_AppendGrowsOneBatch ==
  [][\A u \in Users, m \in Messages :
       Appending(u, m) =>
         LET B == current_batch(u)
         IN /\ DOMAIN batches' = DOMAIN batches
            /\ Len(batches'[B].messages) = Len(batches[B].messages) + 1
            /\ SubSeq(batches'[B].messages, 1, Len(batches[B].messages)) = batches[B].messages
            /\ batches'[B].last_updated >= batches[B].last_updated
            /\ \A n \in DOMAIN batches \ {B} : batches'[n].messages = batches[n].messages]_vars

\* An item has been appended to one of two batches; the other one is empty.
C3_Appended ==
  /\ reply = "Added"
  /\ \E B \in DOMAIN batches, n \in DOMAIN batches :
       /\ n # B
       /\ Len(batches[B].messages) = 1
       /\ batches[n].messages = <<>>

\* The spellings of a batch name that differ from it in case only.
CaseVariants(N) ==
  {N, Lower(N), Upper(N)} \cup {v \in Names : Lower(v) = Lower(N)}

\* User u confirms the deletion of batch B, and it is deleted.
Deleting(u, B) ==
  /\ \E ok \in Writes : handle_callback(u, P_confirm_delete \o B, TRUE, ok)
  /\ reply' = "Deleted"

C5_RegistryNamesLiveBatches ==
  \A n \in DOMAIN subscriptions : n \in DOMAIN batches
\* ------------------------------------------------------------- ownership
\* The session entry of a pending edit of user u that handle_message serves
\* first, None if it serves none.
PendingKey(u) ==
  LET ud == user_data[u]
  IN IF "date_search_batch" \in DOMAIN ud THEN None
     ELSE IF "setting_banner" \in DOMAIN ud THEN "setting_banner"
     ELSE IF "editing_batch" \in DOMAIN ud THEN "editing_batch"
     ELSE IF "editing_teacher" \in DOMAIN ud THEN "editing_teacher"
     ELSE None

\* The next message of user u answers a pending edit of batch B.
PendingEdit(u, B) == PendingKey(u) # None /\ user_data[u][PendingKey(u)] = B

CreatorButtons == {P_edit_desc, P_edit_teacher, P_set_banner, P_delete_batch, P_confirm_delete}

\* User u uses a command on batch name n: /editbatch, /setbanner with a photo.
CommandOn(u, n) ==
  \E ok \in Writes : edit_batch(u, n, "d", ok) \/ set_banner(u, n, TRUE, ok)

\* User u presses a creator-only button of batch B, or answers a pending
\* edit of B.
ButtonOrAnswerOn(u, B) ==
  \E ok \in Writes :
    \/ \E prefix \in CreatorButtons : handle_callback(u, prefix \o B, TRUE, ok)
    \/ PendingEdit(u, B) /\ \E m \in Messages : handle_message(u, m, ok)

Edited(B) ==
  \/ B \notin DOMAIN batches'
  \/ batches'[B].description # batches[B].description
  \/ batches'[B].teacher_name # batches[B].teacher_name
  \/ batches'[B].banner_pic # batches[B].banner_pic

\* C6: only the user recorded as creator at creation can edit a batch's
\* description, teacher or banner, or delete it.  Through every path (the
\* /editbatch and /setbanner commands, the edit, banner and delete buttons,
\* the message that answers a pending edit) the attempt of another user on
\* an existing batch is answered Forbidden and leaves the batch, its items and
\* its subscriptions unchanged; and every edit or deletion of a batch is a
\* step of its creator through one of these paths.
C6_OnlyCreatorEdits ==
  [][/\ \A u \in Users, n \in OwnerNames :
          LET B == get_batch_key(batches, n)
          IN (CommandOn(u, n) /\ B \in DOMAIN batches /\ u # batches[B].created_by) =>
               /\ reply' = "Forbidden"
               /\ UNCHANGED <<batches, message_batch, subscriptions>>
     /\ \A u \in Users, B \in DOMAIN batches :
          (ButtonOrAnswerOn(u, B) /\ u # batches[B].created_by) =>
            /\ reply' = "Forbidden"
            /\ UNCHANGED <<batches, message_batch, subscriptions>>
     /\ \A B \in DOMAIN batches :
          Edited(B) =>
            \/ \E n \in OwnerNames : get_batch_key(batches, n) = B /\ CommandOn(batches[B].created_by, n)
            \/ ButtonOrAnswerOn(batches[B].created_by, B)]_vars

\* User 1 created the batch, opened an edit and deleted the batch; user 2
\* created it again; the message of user 1 that answers the pending edit is
\* rejected.
C6_FormerCreatorRejected ==
  /\ reply = "Forbidden"
  /\ <<"a">> \in DOMAIN batches
  /\ batches[<<"a">>].created_by = 2
  /\ batches[<<"a">>].description = ""
  /\ DOMAIN user_profiles = {1}
  /\ Total(stats.message_types) = 0
  /\ user_data[1] = <<>>
\* ------------------------------------------------------------ batch names
\* User u asks to create a batch named n.
Creating(u, n) == \E ok \in Writes : create_batch(u, n, "t", "", ok)

\* Two names are equal ignoring case (as str.lower() compares them).
SameIgnoringCase(n1, n2) == Lower(n1) = Lower(n2)

C8_ResolveIsCaseInsensitive ==
  /\ \A N \in DOMAIN batches : \A v \in CaseVariants(N) : get_batch_key(batches, v) = N
  /\ \A v \in Names \cup {Upper(n) : n \in Names} :
       (\A k \in DOMAIN batches : ~SameIgnoringCase(k, v)) =>
         /\ get_batch_key(batches, v) = Lower(v)
         /\ get_batch_key(batches, v) \notin DOMAIN batches

\* ---------------------------------------------------------- subscriptions
\* User u presses the subscribe button of batch B, and is subscribed.
Subscribing(u, B) ==
  /\ \E ok \in Writes : handle_callback(u, P_sub \o B, TRUE, ok)
  /\ reply' = "Subscribed"

\* User u presses the unsubscribe button of the existing batch B.
Unsubscribing(u, B) ==
  /\ \E ok \in Writes : handle_callback(u, P_unsub \o B, TRUE, ok)
  /\ reply' = "Unsubscribed"

\* The pairs (user, batch) of the registry sub.
Pairs(sub) == {<<u, n>> \in Users \X DOMAIN sub : u \in DOMAIN sub[n]}

\* C9 as stated: subscribe is idempotent: a second or later subscribe(u, B)
\* has no effect at all on the subscription registry.
C9_ResubscribeChangesNothing ==
  [][\A u \in Users, B \in Names :
       (Subscribing(u, B) /\ is_subscribed(subscriptions, u, B)) =>
         subscriptions' = subscriptions]_vars

\* C9, amended: after subscribe(u, B) the subscribers of B are those before
\* and u, each listed once; a second or later call leaves the pairs of the
\* registry and every other entry unchanged and only renews the time recorded
\* for (u, B).
C9_ResubscribeKeepsSubscribers ==
  [][\A u \in Users, B \in Names :
       Subscribing(u, B) =>
         /\ get_subscribers(subscriptions', B) = get_subscribers(subscriptions, B) \cup {u}
         /\ is_subscribed(subscriptions, u, B) => Pairs(subscriptions') = Pairs(subscriptions)
         /\ subscriptions'[B][u] = now
         /\ \A p \in Pairs(subscriptions) \ {<<u, B>>} :
              /\ p \in Pairs(subscriptions')
              /\ subscriptions'[p[2]][p[1]] = subscriptions[p[2]][p[1]]
         /\ Pairs(subscriptions') \subseteq Pairs(subscriptions) \cup {<<u, B>>}]_vars

\* A user has subscribed a second time: the subscription on disk is older
\* than the one in memory.
C9_SubscribedAgain ==
  /\ reply = "Subscribed"
  /\ \E p \in Pairs(subscriptions) \cap Pairs(disk["subscriptions"]) :
       disk["subscriptions"][p[2]][p[1]] < subscriptions[p[2]][p[1]]

\* C10: unsubscribe(u, B) of a user who is not subscribed to B changes neither
\* the registry nor any other table; of a subscriber it removes exactly the
\* pair (u, B) and leaves every other subscription as it was.
C10_UnsubscribeRemovesOnlyThePair ==
  /\ [](\A u \in Users, B \in Names :
          LET after == unsubscribe(subscriptions, u, B)
          IN IF is_subscribed(subscriptions, u, B)
             THEN /\ Pairs(after) = Pairs(subscriptions) \ {<<u, B>>}
                  /\ \A p \in Pairs(after) : after[p[2]][p[1]] = subscriptions[p[2]][p[1]]
             ELSE after = subscriptions)
  /\ [][\A u \in Users, B \in Names :
          Unsubscribing(u, B) =>
            /\ subscriptions' = unsubscribe(subscriptions, u, B)
            /\ UNCHANGED <<message_store, message_batch, stats, batches, user_profiles>>
            /\ ~is_subscribed(subscriptions, u, B) => UNCHANGED <<subscriptions, disk, last_save>>]_vars

\* Of the two subscribers of the only batch, user 1 has unsubscribed: the
\* registry was flushed by that step, with the older subscription of user 2.
C10_OneOfTwoUnsubscribed ==
  /\ reply = "Unsubscribed"
  /\ Cardinality(DOMAIN batches) = 1
  /\ \E B \in DOMAIN batches :
       /\ Pairs(subscriptions) = {<<2, B>>}
       /\ subscriptions[B][2] < last_save["subscriptions"]
  /\ disk["subscriptions"] = subscriptions

\* ------------------------------------------------------------------- C11
\* The sends that the current run of _add_to_batch has issued to user u.
SentTo(u) == SelectSeq(fanout.log, LAMBDA e : e.to = u)
\* The users that run notifies: the subscribers of the batch as it appended.
Notified == Range(fanout.subscribers)

SomeSendFailed == \E k \in 1..Len(fanout.log) : fanout.log[k].outcome = "error"
\* The item the run appended is stored in its batch.
ItemStored ==
  /\ fanout.key \in DOMAIN message_batch
  /\ fanout.batch \in DOMAIN batches
  /\ fanout.key \in Range(batches[fanout.batch].messages)

\* C12: a delivery failure for one subscriber does not abort the fan-out.
\* After a failed send the handler goes on (it is never stopped by it) with
\* the item stored, and when the handler of a run with a failed send ends,
\* a delivery has been attempted for every subscriber, the item is still
\* stored in the batch and the submitter receives the acknowledgement.
C12_FailureDoesNotAbort ==
  [][ /\ (SomeSendFailed' /\ fanout'.pc # "done") =>
           /\ ItemStored'
           /\ fanout'.log[Len(fanout'.log)].outcome = "error"
                => fanout'.pc \in {"sending", "acking"}
      /\ (SomeSendFailed' /\ fanout'.pc = "done" /\ fanout.pc # "done") =>
           /\ \A u \in Range(fanout'.subscribers) : Len(SentTo(u)') >= 1
           /\ ItemStored'
           /\ reply' = "Added" ]_vars

\* The send to the first of two subscribers failed, the second was sent the
\* item and the submitter was acknowledged.
C12_SecondNotifiedAfterFailure ==
  /\ fanout.pc = "done"
  /\ Len(fanout.subscribers) = 2
  /\ fanout.log[1].outcome = "error"
  /\ fanout.log[1].to = fanout.subscribers[1]
  /\ \E k \in 2..Len(fanout.log) :
       fanout.log[k].to = fanout.subscribers[2] /\ fanout.log[k].outcome = "sent"
  /\ reply = "Added"
  /\ ItemStored

\* ------------------------------------------------------------------- C13
\* C13: the fan-out does not block the acknowledgement. While the handler
\* of an append still has subscriber deliveries that have not completed,
\* the acknowledgement has been sent or can be sent at once.
C13_AckNotBlocked ==
  (fanout.pc \in {"sending", "notice", "hung"}) => (reply = "Added" \/ ENABLED Acknowledge)

\* ------------------------------------------------------------------- C14
\* C14: the deliveries of a fan-out are independent. When the delivery to
\* one subscriber never completes, every other subscriber of the item has
\* been sent its delivery or can be sent it at once.
C14_HungDeliveryBlocksNoOther ==
  fanout.pc = "hung" =>
    \A u \in Notified : SentTo(u) # <<>> \/ ENABLED (\E outcome \in Outcomes : Deliver(outcome))

\* ------------------------------------------------------------------- C15
\* A view (message button or /findmsg) delivers content to its user.
Delivering == reply' = "Delivered" /\ stats'.views # stats.views
\* A deletion has been attempted for every id the task t recorded.
Attempted(t, del) == \A i \in Recorded(t) : \E d \in del : d.task = t /\ d.id = i
\* The cleanup task t ends in this step.
Ending(t) == t \in cleanups /\ t \notin cleanups'

\* C15: every view that delivered content records the message it sent and
\* its trigger for retraction 300 seconds later, and when those 300
\* seconds have elapsed and the cleanup runs, a deletion is attempted for
\* every recorded id.
C15_RetractionAfterDelay ==
  [][ /\ Delivering =>
           \E t \in cleanups' \ cleanups :
             t.due = now + CleanupDelay /\ Cardinality(Recorded(t)) = 2
      /\ \A t \in cleanups :
           Ending(t) => now >= t.due /\ Attempted(t, deletions') ]_vars

\* ------------------------------------------------------------------- C16
\* C16: an armed delivery cannot be cancelled. Whatever happens after the
\* delivery, its cleanup stays armed until its retraction is attempted.
C16_NoCancellation ==
  [][ \A t \in cleanups : t \in cleanups' \/ Attempted(t, deletions') ]_vars

\* ------------------------------------------------------------------- C17
\* C17: when a cleanup deletes, each recorded id is deleted independently:
\* after a failed deletion of one message a deletion has still been
\* attempted for every other id the task recorded.
C17_DeletionsIndependent ==
  \A d \in deletions : ~ d.ok => Attempted(d.task, deletions)

\* The deletion of the content message failed and the trigger message of
\* the same view was deleted.
C17_TriggerDeletedAfterFailure ==
  \E d, e \in deletions :
    /\ d.task = e.task
    /\ d.id \in d.task.sent /\ ~ d.ok
    /\ e.id = e.task.original /\ e.ok

\* ------------------------------------------------------------------- C18
\* C18: arming the timer does not block. The view that arms a cleanup ends
\* at the clock reading it started at, with its content delivered; while
\* cleanups are armed other inbound events are handled; and arming a
\* cleanup leaves the ones already armed in place.
C18_ArmingDoesNotBlock ==
  /\ [](cleanups # {} /\ budget > 0 /\ fanout.pc \in {"idle", "done"}
          => ENABLED (\E u \in Users, m \in TimerMessages : handle_message(u, m, TRUE)))
  /\ [][ cleanups' \ cleanups # {} =>
           /\ now' = now
           /\ reply' = "Delivered"
           /\ cleanups \subseteq cleanups' ]_vars

\* Two cleanups are armed at the same time, neither is due, and an item was
\* ingested between the two views.
C18_TwoArmed ==
  \E t1, t2 \in cleanups :
    /\ t1.due < t2.due
    /\ now < t1.due
    /\ \E k \in DOMAIN message_store :
         /\ t1.due < message_store[k].date + CleanupDelay
         /\ message_store[k].date + CleanupDelay <= t2.due

\* ------------------------------------------------------------------- C19
\* Document d has been flushed and the save interval since then is not over.
InWindow(d) == d \in DOMAIN last_save /\ now - last_save[d] < SaveInterval

\* C19: a document is flushed only if it was never flushed or at least 5
\* seconds have passed since its previous flush: inside that window its
\* copy on disk and the time of its last flush stay as they are, whatever
\* is written in memory, and a new flush time is at least 5 seconds after
\* the previous one.
C19_FlushesFiveSecondsApart ==
  [][ \A d \in Docs :
        /\ InWindow(d) => disk'[d] = disk[d] /\ last_save'[d] = last_save[d]
        /\ (d \in DOMAIN last_save /\ last_save'[d] # last_save[d])
             => last_save'[d] - last_save[d] >= SaveInterval ]_vars

\* An item written inside the window of its document is in memory and not
\* on disk, where the earlier item is.
C19_WriteHeldInMemory ==
  /\ InWindow("message_store")
  /\ DOMAIN disk["message_store"] # {}
  /\ DOMAIN message_store \ DOMAIN disk["message_store"] # {}

\* ------------------------------------------------------------------- C20
\* C20: staleness is bounded by 5 seconds. Every item that was stored more
\* than 5 seconds ago and is still in memory is on disk, also when nothing
\* was written after it.
C20_StalenessBounded ==
  \A k \in DOMAIN message_store :
    now - message_store[k].date > SaveInterval =>
      /\ k \in DOMAIN disk["message_store"]
      /\ disk["message_store"][k] = message_store[k]

\* ------------------------------------------------------------------- C21
\* A save_all called now writes some document.
SaveDue == \E d \in Docs : _should_save(last_save, d, now)
\* What a handler leaves in memory: the tables, the flush times, the
\* session data, and its response.
InMemory == <<CurMem, last_save, user_data, reply>>
\* The step ends in memory as the handler A ends when its writes succeed.
AsOnSuccess(A) == \E x \in {InMemory'} : ENABLED (A /\ InMemory' = x)

ItemsOfKind(B, k) ==
  Cardinality({i \in 1..Len(batches[B].messages) :
                 /\ batches[B].messages[i] \in DOMAIN message_batch
                 /\ message_batch[batches[B].messages[i]].type = k})

\* C22: for every batch and every kind, the batch's counter of that kind
\* equals the number of items of that kind in the batch.
C22_KindCountsMatchItems ==
  \A B \in DOMAIN batches : \A k \in Kinds :
    batches[B].message_types[k] = ItemsOfKind(B, k)

\* ------------------------------------------------------------------- C23
\* A view of item k is recorded in this step.
Viewing(k) == Get(stats'.views, k, 0) = Get(stats.views, k, 0) + 1
\* Item k belongs to batch B.
InBatch(k, B) == B \in DOMAIN batches /\ k \in Range(batches[B].messages)
\* The view counter of batch B.
BatchViews(st, B) == Get(st.batch_views, B, 0)

\* C23 (as claimed): a recorded view of an item that belongs to batch B
\* increments B's view counter by exactly 1, and a recorded view of a
\* standalone item changes no batch view counter.
C23_ItemViewCountsBatch ==
  [][ \A k \in Keys :
        Viewing(k) =>
          /\ \A B \in DOMAIN batches :
               InBatch(k, B) => BatchViews(stats', B) = BatchViews(stats, B) + 1
          /\ (\A B \in DOMAIN batches : ~ InBatch(k, B))
               => stats'.batch_views = stats.batch_views ]_vars

\* C23 (amended): a recorded view of an item, in a batch or standalone,
\* changes no batch view counter; the view counter of batch B is
\* incremented by exactly 1, and no other batch's, when the item list of B
\* is shown.
C23_ListingCountsBatch ==
  [][ /\ \A k \in Keys : Viewing(k) => stats'.batch_views = stats.batch_views
      /\ \A u \in Users, B \in DOMAIN batches :
           ((\E ok \in Writes : _show_batch_messages(u, B, ok)) /\ batches[B].messages # <<>>) =>
             /\ BatchViews(stats', B) = BatchViews(stats, B) + 1
             /\ \A C \in DOMAIN batches \ {B} : BatchViews(stats', C) = BatchViews(stats, C) ]_vars

\* An item of a batch has been viewed and the batch's view counter is 0.
C23_BatchItemViewed ==
  \E B \in DOMAIN batches : \E k \in Range(batches[B].messages) :
    /\ Get(stats.views, k, 0) = 1
    /\ reply = "Delivered"
    /\ BatchViews(stats, B) = 0

\* ------------------------------------------------------------------- C24
\* The items of the store: the keys of its two tables.
Existing == DOMAIN message_store \cup DOMAIN message_batch
\* User u asks for item k, by message button or by /findmsg.
ViewRequest(u, k) ==
  \E ok \in Writes, sent \in BOOLEAN :
    handle_callback(u, P_msg \o k, sent, ok) \/ findmsg(u, k, sent, ok)

\* C24: a view request for an existing item increments the item's view
\* counter by exactly 1 and the viewer's counter by exactly 1 and leaves
\* every other item's and user's counter unchanged; no view counter ever
\* decreases.
C24_ViewCountsOnce ==
  [][ /\ \A u \in Users, k \in Existing :
           ViewRequest(u, k) =>
             /\ Get(stats'.views, k, 0) = Get(stats.views, k, 0) + 1
             /\ Get(stats'.users, u, 0) = Get(stats.users, u, 0) + 1
             /\ \A j \in Keys \ {k} : Get(stats'.views, j, 0) = Get(stats.views, j, 0)
             /\ \A v \in Users \ {u} : Get(stats'.users, v, 0) = Get(stats.users, v, 0)
      /\ \A j \in Keys : Get(stats'.views, j, 0) >= Get(stats.views, j, 0)
      /\ \A v \in Users : Get(stats'.users, v, 0) >= Get(stats.users, v, 0) ]_vars

\* ------------------------------------------------------------------- C25
\* User u has an add session open on a batch that does not exist.
AddingToMissing(u) ==
  /\ DOMAIN user_data[u] = {"current_batch"}
  /\ current_batch(u) \notin DOMAIN batches

\* C25: an append that targets a batch that does not exist fails with "batch
\* no longer exists": no item is stored in either table, no batch is
\* changed, no counter is incremented and no subscriber is notified.
C25_AppendToMissingBatch ==
  [][ \A u \in Users, m \in FanoutMessages :
        (AddingToMissing(u) /\ \E ok \in Writes : handle_message(u, m, ok)) =>
          /\ reply' = "BatchNoLongerExists"
          /\ message_store' = message_store
          /\ message_batch' = message_batch
          /\ batches' = batches
          /\ stats' = stats
          /\ fanout' = fanout ]_vars

\* A user whose add session is on a deleted batch that still has a
\* subscriber sent an item and was told the batch no longer exists.
C25_RefusedAfterDeletion ==
  /\ reply = "BatchNoLongerExists"
  /\ \E u \in Users :
       /\ AddingToMissing(u)
       /\ get_subscribers(subscriptions, current_batch(u)) # {}

\* ------------------------------------------------------------------- C26
\* C26: no handler ends in an unhandled fault that leaves the user without
\* a response, also when the batch of a pending session has been deleted.
C26_NoUnhandledFault == reply # "Unhandled"

\* ------------------------------------------------------------------ C27
\* C27: the share token round trip. For every existing batch B, a token
\* that either share operation issued for B, given to /start while B
\* exists, resolves to B and opens B's information; it is never answered
\* with "no longer exists".
C27_ShareTokenRoundTrip ==
  [][\A u \in Users, B \in DOMAIN batches : \A share_token \in TokensOf(B) :
       start(u, share_token) => TokenBatch(share_token) = B /\ reply' = "BatchInfo"]_vars

\* ------------------------------------------------------------------ C28
\* C28: share tokens are never reused. A share operation that hands out a
\* link produces a token different from every token issued before, for
\* any batch and by any sharer.
C28_TokensNeverReused ==
  [][\A u \in Users, n \in ShareNames :
       /\ (\E ok \in Writes : ShareButton(u, n, ok)) /\ reply' = "ShareLink"
            => ButtonToken(n, u, now) \notin Issued
       /\ (\E ok \in Writes : share_batch(u, n, ok)) /\ reply' = "ShareLink"
            => CommandToken(get_batch_key(batches, n), u, now) \notin Issued]_vars

\* ------------------------------------------------------------------ C29
\* An inbound event from user u is handled: a content message, a command
\* or a button callback.
Inbound(u) ==
  \/ \E m \in StoreMessages, ok \in Writes : handle_message(u, m, ok)
  \/ \E n \in StoreNames, ok \in Writes : create_batch(u, n, "t", "", ok)
  \/ \E n \in StoreNames : add_to_batch(u, n)
  \/ done_adding(u)
  \/ \E data \in StorePayloads, ok \in Writes :
       \E sent \in Deliveries(From(data, 4)) : handle_callback(u, data, sent, ok)
  \/ \E k \in Keys, ok \in Writes : \E sent \in Deliveries(k) : findmsg(u, k, sent, ok)

\* C29: the profile is upserted on every inbound interaction. After any
\* inbound event from user u (a command, a content message or a button
\* callback) the profile table has an entry for u that holds u's current
\* display name and username.
C29_ProfileUpserted ==
  [][\A u \in Users : Inbound(u) =>
       /\ u \in DOMAIN user_profiles'
       /\ user_profiles'[u] = [username |-> UserName(u), first_name |-> FirstName(u)]]_vars

\* ------------------------------------------------------------------ C30
\* The step invokes save_all as its last act, on the tables the handler
\* leaves: a created batch, a counted view. ok: whether its writes succeed.
SavedAtEnd(ok) ==
  \/ /\ reply' = "Created"
     /\ \E u \in Users, n \in SaveNames : create_batch(u, n, "t", "", ok)
  \/ /\ reply' \in {"Delivered", "DeliveryError"}
     /\ \E u \in Users, data \in Button(P_msg, Keys) :
          \E sent \in Deliveries(From(data, 4)) : handle_callback(u, data, sent, ok)
\* The step invokes save_all from update_user_profile, before the content
\* message of u is stored (its later save_all finds every document just
\* flushed).
SavedAtStart(u, ok) == \E m \in DiskMessages : handle_message(u, m, ok)
Upserted(u) ==
  Mem(message_store, message_batch, stats, batches, subscriptions,
      update_user_profile(user_profiles, u, now))

\* Document d was never flushed, or its own last flush is more than the
\* interval ago.
DueAfter(d) == d \notin DOMAIN last_save \/ now - last_save[d] > SaveInterval

\* The step flushes d with the tables mem / leaves d as it is.
Flushes(d, mem, ok) ==
  /\ last_save'[d] = now
  /\ disk'[d] = IF ok THEN mem[d] ELSE disk[d]
Untouched(d) ==
  /\ last_save'[d] = last_save[d]
  /\ disk'[d] = disk[d]

Absent(k) == k \notin DOMAIN message_store /\ k \notin DOMAIN message_batch

\* C31: a view request (the message button or /findmsg) for a key that is
\* in neither the standalone table nor the batch-item table is answered
\* with "not found": no view counter changes, nothing is delivered and no
\* cleanup is armed.
C31_AbsentKeyNotFound ==
  [][\A u \in Users, k \in KnownKeys : Absent(k) /\ ViewRequest(u, k) =>
       /\ reply' \in {"MessageUnavailable", "MessageNotFound"}
       /\ stats' = stats
       /\ cleanups' = cleanups]_vars

\* ------------------------------------------------------------------ C32
RECURSIVE PagesUpTo(_, _, _)
\* The pages 0 .. n-1 of a batch, one after the other.
PagesUpTo(messages, mb, n) ==
  IF n = 0 THEN <<>>
  ELSE PagesUpTo(messages, mb, n - 1) \o PageKeys(messages, mb, n - 1)

IsPrefix(s, t) == Len(s) <= Len(t) /\ SubSeq(t, 1, Len(s)) = s

\* C32: while a batch exists its list of item keys only grows at its end,
\* and the pages follow that order: the pages of the batch, concatenated in
\* page order over ceil(n/8) pages, list every key of the batch exactly
\* once, in insertion order.
C32_PagesFollowItemKeys ==
  /\ [](\A B \in DOMAIN batches :
          PagesUpTo(batches[B].messages, message_batch, total_pages(batches[B].messages))
            = batches[B].messages)
  /\ [][\A B \in DOMAIN batches \cap DOMAIN batches' :
          IsPrefix(batches[B].messages, batches'[B].messages)]_vars

\* ------------------------------------------------------------------ C33
Last(s) == s[Len(s)]

\* C33: the mutations of a batch are whole for every other handler and
\* task. While _add_to_batch is suspended in its notifications, the append
\* it made is complete: the item is stored under its batch, its key is the
\* last of the batch's keys and the batch carries the item's time. A step
\* that appends a key to a batch also stores the item, stamps the batch
\* and counts the item's kind once; a step that removes a batch removes
\* every item the batch lists.
C33_MutationsAreWhole ==
  /\ [](Busy =>
          /\ fanout.batch \in DOMAIN batches
          /\ fanout.key \in DOMAIN message_batch
          /\ message_batch[fanout.key].batch = fanout.batch
          /\ Last(batches[fanout.batch].messages) = fanout.key
          /\ batches[fanout.batch].last_updated = message_batch[fanout.key].date)
  /\ [][\A B \in DOMAIN batches :
          /\ (B \in DOMAIN batches' /\ batches'[B].messages # batches[B].messages) =>
               LET k == Last(batches'[B].messages)
               IN /\ batches'[B].messages = Append(batches[B].messages, k)
                  /\ k \in DOMAIN message_batch'
                  /\ message_batch'[k].batch = B
                  /\ batches'[B].last_updated = now
                  /\ Total(stats'.message_types) = Total(stats.message_types) + 1
          /\ B \notin DOMAIN batches' =>
               \A k \in Range(batches[B].messages) : k \notin DOMAIN message_batch']_vars

\* _add_to_batch is suspended after its first notification, with a second
\* subscriber still to notify.
C33_SuspendedAfterAppend ==
  /\ fanout.pc = "sending"
  /\ fanout.i = 2
  /\ Len(batches[fanout.batch].messages) = 1

\* ------------------------------------------------------------------ C34
\* C34: a cleanup task is armed for 300 seconds after its delivery, and it
\* issues no deletion request before that time; it asks only for the
\* deletion of the message ids that its delivery recorded, in the chat
\* that its delivery recorded.
C34_DeletionsOnlyAfterDelay ==
  [][/\ \A t \in cleanups' \ cleanups : t.due = now + CleanupDelay
     /\ \A d \in deletions' \ deletions :
          /\ d.task \in cleanups
          /\ now >= d.task.due
          /\ d.id \in Recorded(d.task)
          /\ d.chat_id = d.task.chat_id]_vars

\* A cleanup has run when its 300 seconds were over and has asked for the
\* deletion of the message that its delivery sent.
C34_RetractedAfterDelay ==
  \E d \in deletions :
    /\ d.id \in d.task.sent
    /\ d.ok
    /\ now >= d.task.due
    /\ now >= CleanupDelay

\* ------------------------------------------------------------------ C35
\* C35: referential integrity of batches. Every key that an existing batch
\* B lists is in the batch-item table, and the item stored under it names B
\* as its batch; the deletion of one batch removes no item that another
\* batch still lists.
C35_BatchKeysResolve ==
  /\ [](\A B \in DOMAIN batches : \A k \in Range(batches[B].messages) :
          k \in DOMAIN message_batch /\ message_batch[k].batch = B)
  /\ [][\A B \in DOMAIN batches \ DOMAIN batches', B2 \in DOMAIN batches' :
          \A k \in Range(batches'[B2].messages) :
            k \in DOMAIN message_batch => k \in DOMAIN message_batch']_vars

\* ------------------------------------------------------------------ C36
\* Key k belonged to a batch that has been deleted, and nothing was
\* ingested under k since: k is in neither table, and the copy on disk,
\* not yet rewritten, still holds the item of a batch that is gone.
OfDeletedBatch(k) ==
  /\ Absent(k)
  /\ k \in DOMAIN disk["message_batch"]
  /\ disk["message_batch"][k].batch \notin DOMAIN batches

\* C36: once a batch has been deleted none of its items is retrievable
\* again: a view or /findmsg request for a key of the deleted batch is
\* answered with "not found" and delivers nothing.
C36_DeletedItemsStayGone ==
  [][\A u \in Users, k \in KnownKeys : OfDeletedBatch(k) /\ ViewRequest(u, k) =>
       /\ reply' \in {"MessageUnavailable", "MessageNotFound"}
       /\ Absent(k)']_vars

\* ------------------------------------------------------------------ C37
\* A content message of user u is handled.
Routed(u) == \E m \in DiskMessages, ok \in Writes : handle_message(u, m, ok)
\* u has a date search, a banner or an edit pending, which the next
\* message of u answers.
Pending(u) ==
  DOMAIN user_data[u] \cap
    {"date_search_batch", "setting_banner", "editing_batch", "editing_teacher"} # {}
\* u is between a successful /addtobatch and /done.
InSession(u) == "current_batch" \in DOMAIN user_data[u]
\* The step stores its message in neither table / in the standalone table /
\* in batch B.
StoredNowhere == message_store' = message_store /\ message_batch' = message_batch
StoredStandalone ==
  /\ MsgKey(now) \in DOMAIN message_store'
  /\ message_batch' = message_batch
  /\ batches' = batches
StoredInBatch(B) ==
  /\ message_store' = message_store
  /\ B \in DOMAIN batches'
  /\ batches'[B].messages # <<>>
  /\ Last(batches'[B].messages) = MsgKey(now)
  /\ MsgKey(now) \in DOMAIN message_batch'
  /\ message_batch'[MsgKey(now)].batch = B

\* C37 as stated: the routing of a content message depends only on the
\* session of its sender. A message that answers a pending date search or
\* edit is stored in neither table; otherwise, between the sender's
\* /addtobatch B and /done it is appended to B, and outside such a session
\* it is stored in the standalone table and in no batch.
C37_RoutedBySession ==
  [][\A u \in Users : Routed(u) =>
       IF Pending(u) THEN StoredNowhere
       ELSE IF InSession(u) THEN StoredInBatch(current_batch(u))
       ELSE StoredStandalone]_vars

\* C37 amended: as above, but in a session on a batch that has been
\* deleted the message is refused and stored in neither table.
C37_RoutedBySessionWhileBatchExists ==
  [][\A u \in Users : Routed(u) =>
       IF Pending(u) THEN StoredNowhere
       ELSE IF InSession(u)
       THEN IF current_batch(u) \in DOMAIN batches
            THEN StoredInBatch(current_batch(u)) ELSE StoredNowhere
       ELSE StoredStandalone]_vars

\* One user's message went to the batch of their session and the other
\* user's message to the standalone table.
C37_BothRoutes ==
  /\ message_store # <<>>
  /\ message_batch # <<>>
  /\ \E u \in Users : InSession(u)
  /\ \E u \in Users : ~ InSession(u)

\* ------------------------------------------------------------------ C38
\* C38: the time of a document's last flush advances only when the
\* document was written to disk: a save_all whose writes fail leaves the
\* flush time of every document that was due as it was, so that the next
\* save_all tries again.
C38_StampOnlyWhenWritten ==
  [][\A u \in Users, d \in Docs : SavedAtStart(u, FALSE) /\ DueAfter(d) =>
       (d \in DOMAIN last_save' => d \in DOMAIN last_save /\ last_save'[d] = last_save[d])]_vars

\* ------------------------------------------------------------------ C39
\* User u asks for item k, the item is found and its view is counted; sent:
\* whether the delivery of the content succeeds.
Viewed(u, k, sent) ==
  /\ stats'.views # stats.views
  /\ \E ok \in Writes : handle_callback(u, P_msg \o k, sent, ok) \/ findmsg(u, k, sent, ok)

\* C39: a cleanup is armed exactly once for every view whose delivery
\* succeeded, for the chat of the viewer, and never for a view whose
\* delivery failed: when the delivery raises, no cleanup is scheduled and
\* the viewer gets an error reply.
C39_ArmedOncePerDelivery ==
  [][\A u \in Users, k \in KnownKeys, sent \in BOOLEAN : Viewed(u, k, sent) =>
       IF sent
       THEN /\ reply' = "Delivered"
            /\ cleanups \subseteq cleanups'
            /\ Cardinality(cleanups' \ cleanups) = 1
            /\ \A t \in cleanups' \ cleanups : t.chat_id = u
       ELSE /\ reply' = "DeliveryError"
            /\ cleanups' = cleanups]_vars

\* A view was delivered and armed its cleanup; a second view failed and
\* armed none.
C39_FailedViewArmsNothing ==
  /\ reply = "DeliveryError"
  /\ Cardinality(cleanups) = 1
  /\ Total(stats.views) = 2

\* ------------------------------------------------------------------ C40
\* The operation that the button with the given prefix was built for, on
\* batch N.
BuiltFor(u, prefix, N, ok) ==
  CASE prefix = P_batch -> _show_batch_messages(u, N, ok)
    [] prefix = P_page -> _show_batch_messages(u, N, ok)
    [] prefix = P_edit_desc -> OpenSession(u, N, "editing_batch", "AskDescription")
    [] prefix = P_edit_teacher -> OpenSession(u, N, "editing_teacher", "AskTeacher")
    [] prefix = P_set_banner -> OpenSession(u, N, "setting_banner", "AskBanner")
    [] prefix = P_delete_batch -> DeleteRequest(u, N)
    [] prefix = P_confirm_delete -> ConfirmDelete(u, N, ok)
    [] prefix = P_back_to_batch -> Say("BatchInfo")
    [] prefix = P_share -> ShareButton(u, N, ok)
    [] prefix = P_sub -> Subscribe(u, N, ok)
    [] prefix = P_unsub -> Unsubscribe(u, N, ok)
    [] prefix = P_search_date -> SearchDatePick(u, N)

\* C40: the button round trip for batch names. For every batch N that
\* create_batch accepted, names with or beginning with underscores
\* included, every button payload that embeds N is decoded by
\* handle_callback to exactly N and routed to the operation the button was
\* built for.
C40_ButtonsDecodeToTheirBatch ==
  [][\A u \in Users, N \in DOMAIN batches, ok \in Writes :
       /\ \A prefix \in ButtonPrefixes :
            handle_callback(u, prefix \o N, TRUE, ok) => BuiltFor(u, prefix, N, ok)
       /\ handle_callback(u, P_page \o N \o <<"_", "0">>, TRUE, ok)
            => BuiltFor(u, P_page, N, ok)]_vars
====
